---- MODULE Spec2Model ----
(***************************************************************************)
(* Model of the delivery-platform console application: the ORM-backed      *)
(* Model class (model.py), the table declarations (orm_models.py) and the  *)
(* Controller actions (controllers.py) that drive it.                      *)
(*                                                                         *)
(* Values are integers.  A value v in Vals stands for a well-formed text   *)
(* or number, NULL for Python's None / SQL NULL and BadText for a text     *)
(* that is neither a number nor a timestamp.                               *)
(***************************************************************************)
EXTENDS Integers, Sequences, FiniteSets, TLC

\* ------------------------------------------------------------------ bounds
MaxId == 2
MaxVal == 1
MaxGen == 1
MaxOps == 2
MaxKeys == 2
MaxAmount == 2

NULL == -1
BadText == -2

Ids == 1..MaxId
Vals == 1..MaxVal

\* ------------------------------------------------------------------ schema
TableMap == {"client", "courier", "Order", "Dish", "ordering"}

\* A table identifier that is not registered.
NoTable == "no_such_table"

list_tables == <<"client", "courier", "Order", "Dish", "ordering">>

Col(n, a, ty, nl, p, au, f) ==
    [name |-> n, attr |-> a, type |-> ty, nullable |-> nl,
     primary_key |-> p, autoincrement |-> au, fk |-> f]

\* The columns each mapped class declares, in declaration order: the column
\* name in the store, the attribute name of the class, the declared type,
\* nullability (Optional[...]), primary key, serial default, referenced table.
Columns(table) ==
    CASE table = "client" ->
           << Col("client_id", "client_id", "integer", FALSE, TRUE, TRUE, ""),
              Col("client_name", "client_name", "varchar(255)", FALSE, FALSE, FALSE, ""),
              Col("phone_number", "phone_number", "varchar(50)", TRUE, FALSE, FALSE, "") >>
      [] table = "courier" ->
           << Col("courier_id", "courier_id", "integer", FALSE, TRUE, TRUE, ""),
              Col("courier_name", "courier_name", "varchar(255)", FALSE, FALSE, FALSE, ""),
              Col("transport", "transport", "varchar(100)", TRUE, FALSE, FALSE, "") >>
      [] table = "Order" ->
           << Col("order_id", "order_id", "integer", FALSE, TRUE, TRUE, ""),
              Col("total_amount", "total_amount", "numeric(10, 2)", FALSE, FALSE, FALSE, ""),
              Col("order_time", "order_time", "timestamp", FALSE, FALSE, FALSE, "") >>
      [] table = "Dish" ->
           << Col("Dish_ID", "dish_id", "integer", FALSE, TRUE, FALSE, "Order"),
              Col("total_amount", "total_amount", "integer", FALSE, FALSE, FALSE, ""),
              Col("dish_price", "dish_price", "integer", FALSE, FALSE, FALSE, "") >>
      [] table = "ordering" ->
           << Col("ordering_id", "ordering_id", "integer", FALSE, TRUE, TRUE, ""),
              Col("client_id", "client_id", "integer", FALSE, FALSE, FALSE, "client"),
              Col("courier_id", "courier_id", "integer", FALSE, FALSE, FALSE, "courier"),
              Col("order_id", "order_id", "integer", FALSE, FALSE, FALSE, "Order") >>
      [] OTHER -> << >>

Range(s) == {s[i] : i \in DOMAIN s}

ColSet(table) == Range(Columns(table))

\* Attribute names of the mapped class (what hasattr / the constructor accept).
AttrSet(table) == {c.attr : c \in ColSet(table)}

ColOfAttr(table, a) == CHOOSE c \in ColSet(table) : c.attr = a

PkCol(table) == CHOOSE c \in ColSet(table) : c.primary_key

\* inspect(cls).primary_key[0]: the attribute session.get looks a row up by.
PkAttr(table) == PkCol(table).attr

\* relationship(..., cascade="all, delete-orphan"): the child tables whose rows
\* the parent's relationship lists hold, with the referencing attribute.
Relationships(table) ==
    CASE table = "client" -> {[child |-> "ordering", attr |-> "client_id"]}
      [] table = "courier" -> {[child |-> "ordering", attr |-> "courier_id"]}
      [] table = "Order" -> {[child |-> "ordering", attr |-> "order_id"],
                             [child |-> "Dish", attr |-> "dish_id"]}
      [] OTHER -> {}

\* ------------------------------------------------------------------ state
VARIABLES
    db,      \* the store: table -> (primary key -> row)
    seq,     \* the store's serial generators: table -> next value
    result,  \* the last call: what was called, with what, and what it returned
    pre,     \* the store and its generators as they were when the last step began
    nops,    \* calls made so far
    inflight \* a call that has done its check and not yet its write

vars == <<db, seq, result, pre, nops, inflight>>

EmptyDb == [t \in TableMap |-> << >>]

NoData == << >>

NoCall == [op |-> "", table |-> "", pk |-> NULL, data |-> NoData, observed |-> FALSE]

\* op/table/pk/data: the call and its arguments (raw: what the user typed,
\* for a console action, data then being the payload built from it);
\* ok/err/raised: what it
\* returned or raised; rows: the rows a fetch returned; detail: the names an
\* error message carries; issued: whether a write reached the store.
Result(op, table, pk, data, ok, err, raised, rows, detail, issued) ==
    [op |-> op, table |-> table, pk |-> pk, data |-> data, raw |-> << >>,
     ok |-> ok, err |-> err, raised |-> raised, rows |-> rows, detail |-> detail,
     issued |-> issued]

Init ==
    /\ db = EmptyDb
    /\ seq = [t \in TableMap |-> 1]
    /\ result = Result("idle", "", NULL, NoData, TRUE, "", FALSE, << >>, << >>, FALSE)
    /\ pre = [db |-> EmptyDb, seq |-> [t \in TableMap |-> 1]]
    /\ nops = 0
    /\ inflight = NoCall

\* ------------------------------------------------------- the backing store
\* The constraints the declared tables carry: column types, NOT NULL,
\* primary-key uniqueness and the ForeignKey(...) references.

IsTextType(dtype) == dtype \in {"varchar(255)", "varchar(50)", "varchar(100)"}

TypeOk(table, row) ==
    \A c \in ColSet(table) : row[c.attr] = BadText => IsTextType(c.type)

NotNullOk(table, row) ==
    \A c \in ColSet(table) : ~c.nullable => row[c.attr] # NULL

\* A store whose tables were created without the ForeignKey references.
FkOk_undeclared(d, table, row) == TRUE

FkOk(d, table, row) ==
    \A c \in ColSet(table) :
        (c.fk # "" /\ row[c.attr] # NULL) => row[c.attr] \in DOMAIN d[c.fk]

\* Some row of another table references key k of this table.
Referenced(d, table, k) ==
    \E t \in TableMap : \E c \in ColSet(t) :
        c.fk = table /\ \E r \in DOMAIN d[t] : d[t][r][c.attr] = k

\* f with the pair k :> v added or replaced, and f without key k.
Put(f, k, v) == [x \in (DOMAIN f) \cup {k} |-> IF x = k THEN v ELSE f[x]]

Drop(f, ks) == [x \in (DOMAIN f) \ ks |-> f[x]]

\* What a call hands back: the answer, the store after it, and whether a
\* write statement was sent to the store (issued).
StoreOut(ok, err, raised, d, s) ==
    [ok |-> ok, err |-> err, raised |-> raised, db |-> d, seq |-> s, issued |-> FALSE]

Sent(ok, err, d, s) ==
    [ok |-> ok, err |-> err, raised |-> FALSE, db |-> d, seq |-> s, issued |-> TRUE]

\* INSERT of one row and COMMIT.  A serial key column left unset takes the
\* generator's next value; the generator moves even when the row is rejected.
StoreInsert(d, s, table, data) ==
    LET pk == PkAttr(table)
        given == pk \in DOMAIN data /\ data[pk] # NULL
        serial == ~given /\ PkCol(table).autoincrement
        row == [a \in AttrSet(table) |->
                  IF a = pk /\ serial THEN s[table]
                  ELSE IF a \in DOMAIN data THEN data[a] ELSE NULL]
        s2 == IF serial THEN [s EXCEPT ![table] = @ + 1] ELSE s
    IN  IF /\ TypeOk(table, row)
           /\ NotNullOk(table, row)
           /\ row[pk] \notin DOMAIN d[table]
           /\ FkOk(d, table, row)
        THEN Sent(TRUE, "", [d EXCEPT ![table] = Put(@, row[pk], row)], s2)
        ELSE Sent(FALSE, "SQLAlchemyError", d, s2)

\* An update whose rejected row stays written (no rollback of the session).
StoreUpdate_no_rollback(d, s, table, k, row) ==
    Sent(FALSE, "SQLAlchemyError",
         [d EXCEPT ![table] = Put(@, k, [row EXCEPT ![PkAttr(table)] = k])], s)

\* UPDATE of the row with key k to row and COMMIT.
StoreUpdate(d, s, table, k, row) ==
    LET pk == PkAttr(table)
    IN  IF /\ TypeOk(table, row)
           /\ NotNullOk(table, row)
           /\ (row[pk] # k => (row[pk] \notin DOMAIN d[table] /\ ~Referenced(d, table, k)))
           /\ FkOk(d, table, row)
        THEN Sent(TRUE, "", [d EXCEPT ![table] = Put(Drop(@, {k}), row[pk], row)], s)
        ELSE Sent(FALSE, "SQLAlchemyError", d, s)

\* The rows session.delete(obj) removes: obj and, through the cascade of its
\* relationships, every child row that references it.
Cascaded(d, table, k) ==
    [t \in TableMap |->
        {r \in DOMAIN d[t] :
            \/ t = table /\ r = k
            \/ \E rel \in Relationships(table) :
                   rel.child = t /\ d[t][r][rel.attr] = k}]

StoreDelete(d, s, table, k) ==
    LET gone == Cascaded(d, table, k)
    IN  Sent(TRUE, "", [t \in TableMap |-> Drop(d[t], gone[t])], s)

\* ------------------------------------------------------------ model.py
\* Model._to_dict: the row as a mapping keyed by the class's attribute names,
\* as a sequence of at most one mapping (empty for None).
to_dict(d, table, k) == IF k \in DOMAIN d[table] THEN << d[table][k] >> ELSE << >>

\* Model.primary_key.  The inspector either raises for a table the store does
\* not have (reflect_raises) or reports no constraint; the fallback then asks
\* TableMap and returns None for a name it does not hold.
primary_key(table, reflect_raises) ==
    IF table \in TableMap
    THEN [raised |-> FALSE, err |-> "", value |-> << PkCol(table).name >>]
    ELSE IF reflect_raises
    THEN [raised |-> TRUE, err |-> "NoSuchTableError", value |-> << >>]
    ELSE [raised |-> FALSE, err |-> "", value |-> << >>]

IsIntType(dtype) == dtype = "integer"

is_identity(table, col) ==
    IF col.autoincrement = TRUE \/ (col.primary_key /\ IsIntType(col.type))
    THEN IF table = "Dish" /\ col.name = "Dish_ID" THEN FALSE ELSE TRUE
    ELSE FALSE

\* Model.columns_info: one record per column the inspector reports; for a
\* table the store does not have the inspector raises (reflect_raises) or
\* reports no columns.
columns_info(table, reflect_raises) ==
    IF table \notin TableMap /\ reflect_raises
    THEN [raised |-> TRUE, err |-> "NoSuchTableError", value |-> << >>]
    ELSE [raised |-> FALSE, err |-> "",
          value |-> [i \in DOMAIN Columns(table) |->
                       LET col == Columns(table)[i]
                       IN  [name |-> col.name, type |-> col.type,
                            nullable |-> col.nullable,
                            identity |-> is_identity(table, col)]]]

\* Model.parse_date: the text when strptime accepts it as a date or a
\* timestamp, None otherwise.  No method of Model or Controller calls it.
parse_date(value) == IF value = BadText THEN NULL ELSE value

\* Model.cast_value: int(raw) for the integer family, raw itself otherwise
\* ("numeric(10, 2)" is none of the listed floating names).
cast_value(raw, dtype) ==
    IF raw = NULL THEN [raised |-> FALSE, value |-> NULL]
    ELSE IF IsIntType(dtype)
    THEN IF raw = BadText THEN [raised |-> TRUE, value |-> NULL]
         ELSE [raised |-> FALSE, value |-> raw]
    ELSE [raised |-> FALSE, value |-> raw]

RECURSIVE Ascending(_)
Ascending(S) ==
    IF S = {} THEN << >>
    ELSE LET m == CHOOSE x \in S : \A y \in S : x <= y
         IN  << m >> \o Ascending(S \ {m})

\* Model.select_all
select_all(d, table) ==
    IF table \notin TableMap THEN << >>
    ELSE LET ks == Ascending(DOMAIN d[table])
         IN  [i \in DOMAIN ks |-> d[table][ks[i]]]

\* Model.select_by_pk
select_by_pk(d, table, pk_val) ==
    IF table \notin TableMap THEN << >>
    ELSE to_dict(d, table, pk_val)

\* Model.insert
insert(d, s, table, data) ==
    IF table \notin TableMap THEN StoreOut(FALSE, "UnknownTable", FALSE, d, s)
    ELSE IF \E key \in DOMAIN data : key \notin AttrSet(table)
    THEN StoreOut(FALSE, "TypeError", TRUE, d, s)
    ELSE StoreInsert(d, s, table, data)

\* Model.update
update(d, s, table, pk_val, updates) ==
    IF table \notin TableMap THEN StoreOut(FALSE, "UnknownTable", FALSE, d, s)
    ELSE IF DOMAIN updates = {} THEN StoreOut(TRUE, "", FALSE, d, s)
    ELSE IF pk_val \notin DOMAIN d[table] THEN StoreOut(FALSE, "NotFound", FALSE, d, s)
    ELSE LET obj == d[table][pk_val]
             new == [a \in AttrSet(table) |->
                       IF a \in DOMAIN updates THEN updates[a] ELSE obj[a]]
         IN  StoreUpdate(d, s, table, pk_val, new)

\* has_child_records without the check of the Order's Dish.
has_child_records_orderings_only(d, table, pk_val) ==
    /\ table \in {"client", "courier", "Order"}
    /\ pk_val \in DOMAIN d[table]
    /\ \E r \in DOMAIN d["ordering"] : d["ordering"][r][PkAttr(table)] = pk_val

\* Model.has_child_records
has_child_records(d, table, pk_val) ==
    IF table \notin TableMap THEN FALSE
    ELSE IF pk_val \notin DOMAIN d[table] THEN FALSE
    ELSE IF /\ table \in {"client", "courier", "Order"}
            /\ \E r \in DOMAIN d["ordering"] :
                   d["ordering"][r][PkAttr(table)] = pk_val
    THEN TRUE
    ELSE IF table = "Order" /\ pk_val \in DOMAIN d["Dish"] THEN TRUE
    ELSE FALSE

\* The second session of delete returning without its commit.
delete_row_not_committed(d, s, table, pk_val) ==
    IF table \notin TableMap THEN StoreOut(FALSE, "UnknownTable", FALSE, d, s)
    ELSE IF pk_val \in DOMAIN d[table] THEN Sent(TRUE, "", d, s)
    ELSE StoreOut(FALSE, "NotFound", FALSE, d, s)

\* Model.delete, second half: the session that fetches and deletes the row.
delete_row(d, s, table, pk_val) ==
    IF table \notin TableMap THEN StoreOut(FALSE, "UnknownTable", FALSE, d, s)
    ELSE IF pk_val \in DOMAIN d[table] THEN StoreDelete(d, s, table, pk_val)
    ELSE StoreOut(FALSE, "NotFound", FALSE, d, s)

\* A delete that skips has_child_records.
delete_unchecked(d, s, table, pk_val) == delete_row(d, s, table, pk_val)

\* Model.delete
delete(d, s, table, pk_val) ==
    IF has_child_records(d, table, pk_val)
    THEN StoreOut(FALSE, "DependentRowsExist", FALSE, d, s)
    ELSE delete_row(d, s, table, pk_val)

\* ---------------------------------------------------- model.py: generation
\* session.add for every row of rows, then one commit: all rows or none.
RECURSIVE AddAll(_, _, _, _)
AddAll(d, s, table, rows) ==
    IF rows = << >> THEN StoreOut(TRUE, "", FALSE, d, s)
    ELSE LET one == StoreInsert(d, s, table, Head(rows))
         IN  IF one.ok THEN AddAll(one.db, one.seq, table, Tail(rows))
             ELSE [one EXCEPT !.raised = TRUE]

\* An error inside the session is not caught: nothing of it is committed.
Committed(d, out) == IF out.ok THEN out ELSE [out EXCEPT !.db = d, !.raised = TRUE]

\* Model.generate_clients / generate_couriers / generate_orders: rows holds the
\* random field values drawn for each of the n new rows.
generate_rows(d, s, table, rows) == Committed(d, AddAll(d, s, table, rows))

\* Model.generate_ordering: picks holds the n random (client, courier, order)
\* choices among the keys that exist.
generate_ordering(d, s, picks) ==
    IF DOMAIN d["client"] = {} \/ DOMAIN d["courier"] = {} \/ DOMAIN d["Order"] = {}
    THEN StoreOut(TRUE, "", FALSE, d, s)
    ELSE Committed(d, AddAll(d, s, "ordering", picks))

PicksValid(d, picks) ==
    \A i \in DOMAIN picks :
        /\ picks[i].client_id \in DOMAIN d["client"]
        /\ picks[i].courier_id \in DOMAIN d["courier"]
        /\ picks[i].order_id \in DOMAIN d["Order"]

\* Orders that have no Dish yet.
OrdersWithoutDish(d) == DOMAIN d["Order"] \ DOMAIN d["Dish"]

Min(a, b) == IF a < b THEN a ELSE b

\* Model.generate_dishes: chosen are the (at most n) orders the LIMIT n query
\* returned, price the random dish_price.
generate_dishes(d, s, chosen, price) ==
    LET ks == Ascending(chosen)
        rows == [i \in DOMAIN ks |->
                   [dish_id |-> ks[i],
                    total_amount |-> d["Order"][ks[i]].total_amount,
                    dish_price |-> price]]
    IN  Committed(d, AddAll(d, s, "Dish", rows))

ChosenValid(d, n, chosen) ==
    /\ chosen \subseteq OrdersWithoutDish(d)
    /\ Cardinality(chosen) = Min(n, Cardinality(OrdersWithoutDish(d)))

\* ------------------------------------------------------- controllers.py
CtlOut(ok, err, raised, d, s, data, detail, issued) ==
    [ok |-> ok, err |-> err, raised |-> raised, db |-> d, seq |-> s,
     data |-> data, detail |-> detail, issued |-> issued]

FromStore(out, data) ==
    CtlOut(out.ok, out.err, out.raised, out.db, out.seq, data, << >>, out.issued)

\* The loop of action_insert without the check of c["nullable"].
RECURSIVE insert_fields_no_null_check(_, _, _, _)
insert_fields_no_null_check(cols, raw, i, data) ==
    IF i > Len(cols) THEN [err |-> "", data |-> data, detail |-> << >>]
    ELSE LET c == cols[i]
         IN  IF c.identity THEN insert_fields_no_null_check(cols, raw, i + 1, data)
             ELSE IF raw[c.name] = NULL
             THEN insert_fields_no_null_check(cols, raw, i + 1, Put(data, c.name, NULL))
             ELSE LET v == cast_value(raw[c.name], c.type)
                  IN  IF v.raised
                      THEN [err |-> "ValueError", data |-> data, detail |-> << c.name >>]
                      ELSE insert_fields_no_null_check(cols, raw, i + 1,
                                                       Put(data, c.name, v.value))

\* Controller.action_insert, the loop over cols_info: raw[name] is what the
\* user typed for the column (NULL for an empty line).
RECURSIVE insert_fields(_, _, _, _)
insert_fields(cols, raw, i, data) ==
    IF i > Len(cols) THEN [err |-> "", data |-> data, detail |-> << >>]
    ELSE LET c == cols[i]
         IN  IF c.identity THEN insert_fields(cols, raw, i + 1, data)
             ELSE IF raw[c.name] = NULL
             THEN IF ~c.nullable
                  THEN [err |-> "MissingRequiredField", data |-> data, detail |-> << c.name >>]
                  ELSE insert_fields(cols, raw, i + 1, Put(data, c.name, NULL))
             ELSE LET v == cast_value(raw[c.name], c.type)
                  IN  IF v.raised
                      THEN [err |-> "ValueError", data |-> data, detail |-> << c.name >>]
                      ELSE insert_fields(cols, raw, i + 1, Put(data, c.name, v.value))

\* Controller.action_insert
action_insert(d, s, table, raw) ==
    LET f == insert_fields(columns_info(table, FALSE).value, raw, 1, NoData)
    IN  IF f.err # "" THEN CtlOut(FALSE, f.err, FALSE, d, s, f.data, f.detail, FALSE)
        ELSE FromStore(insert(d, s, table, f.data), f.data)

\* Controller.action_update, the loop over cols_info.
RECURSIVE update_fields(_, _, _, _, _)
update_fields(cols, pk, raw, i, updates) ==
    IF i > Len(cols) THEN [err |-> "", data |-> updates, detail |-> << >>]
    ELSE LET c == cols[i]
         IN  IF c.name = pk THEN update_fields(cols, pk, raw, i + 1, updates)
             ELSE IF raw[c.name] = NULL THEN update_fields(cols, pk, raw, i + 1, updates)
             ELSE LET v == cast_value(raw[c.name], c.type)
                  IN  IF v.raised
                      THEN [err |-> "ValueError", data |-> updates, detail |-> << c.name >>]
                      ELSE update_fields(cols, pk, raw, i + 1, Put(updates, c.name, v.value))

ParentColumns ==
    << [col |-> "client_id", table |-> "client"],
       [col |-> "courier_id", table |-> "courier"],
       [col |-> "order_id", table |-> "Order"] >>

\* The validation of action_update checking client_id alone.
failed_reference_client_only(d, updates, i) ==
    IF "client_id" \in DOMAIN updates /\ select_by_pk(d, "client", updates["client_id"]) = << >>
    THEN << "client_id", "client" >>
    ELSE << >>

\* Controller.action_update, the foreign-key validation: the first parent
\* column of updates whose value has no row in its parent table, if any.
RECURSIVE failed_reference(_, _, _)
failed_reference(d, updates, i) ==
    IF i > Len(ParentColumns) THEN << >>
    ELSE LET p == ParentColumns[i]
         IN  IF /\ p.col \in DOMAIN updates
                /\ select_by_pk(d, p.table, updates[p.col]) = << >>
             THEN << p.col, p.table >>
             ELSE failed_reference(d, updates, i + 1)

\* Controller.action_update, for a key value that was read successfully.
action_update(d, s, table, pk_val, raw) ==
    LET pk == primary_key(table, FALSE).value[1]
    IN  IF select_by_pk(d, table, pk_val) = << >>
        THEN CtlOut(FALSE, "NotFound", FALSE, d, s, NoData, << >>, FALSE)
        ELSE LET f == update_fields(columns_info(table, FALSE).value, pk, raw, 1, NoData)
                 bad == IF table = "ordering" THEN failed_reference(d, f.data, 1) ELSE << >>
             IN  IF f.err # "" THEN CtlOut(FALSE, f.err, FALSE, d, s, f.data, f.detail, FALSE)
                 ELSE IF DOMAIN f.data = {}
                 THEN CtlOut(TRUE, "NothingChanged", FALSE, d, s, f.data, << >>, FALSE)
                 ELSE IF bad # << >>
                 THEN CtlOut(FALSE, "FailedReference", FALSE, d, s, f.data, bad, FALSE)
                 ELSE FromStore(update(d, s, table, pk_val, f.data), f.data)

\* Controller.action_delete, for a key value that was read successfully.
action_delete(d, s, table, pk_val) ==
    FromStore(delete(d, s, table, pk_val), NoData)

\* Controller.action_generate runs the five generators in turn, each skipped
\* for a count of 0; an error of the store is not caught and ends the action
\* with the earlier generators' rows committed.  g is the outcome so far.
then_rows(g, n, table, rows) ==
    IF ~g.ok \/ n = 0 THEN g ELSE generate_rows(g.db, g.seq, table, rows)

then_ordering(g, n, picks) ==
    IF ~g.ok \/ n = 0 THEN g ELSE generate_ordering(g.db, g.seq, picks)

then_dishes(g, n, chosen, price) ==
    IF ~g.ok \/ n = 0 THEN g ELSE generate_dishes(g.db, g.seq, chosen, price)

\* ---------------------------------------------------------------- inputs
\* What a caller may pass for an attribute: keys for key and reference
\* attributes, field values or None for the others.
IsKeyAttr(table, a) == ColOfAttr(table, a).primary_key \/ ColOfAttr(table, a).fk # ""

AttrValues(table, a) == IF IsKeyAttr(table, a) THEN Ids ELSE Vals \cup {NULL}

AllValues == Ids \cup Vals \cup {NULL, BadText}

\* Payloads keyed by attribute names, over any set of at most MaxKeys of them.
Payloads(table, most) ==
    UNION { {f \in [K -> AllValues] : \A a \in K : f[a] \in AttrValues(table, a)} :
            K \in {K \in SUBSET AttrSet(table) : Cardinality(K) <= most} }

\* A payload keyed by the store's column names (what columns_info reports).
ColumnPayload(table) == [n \in {c.name : c \in ColSet(table)} |-> 1]

AnyTable == TableMap \cup {NoTable}

InsertPayloads ==
    [table \in AnyTable |->
        IF table \in TableMap
        THEN {f \in Payloads(table, 4) : \A a \in DOMAIN f : f[a] # NULL}
                 \cup {ColumnPayload(table)}
        ELSE {NoData, [x |-> 1]}]

UpdatePayloads ==
    [table \in AnyTable |->
        IF table \in TableMap
        THEN Payloads(table, MaxKeys) \cup {ColumnPayload(table)}
        ELSE {NoData, [x |-> 1]}]

\* What a user may type at the prompt of a column: nothing, a well-formed
\* value, or a text that is not a number.
RawValues(c) ==
    (IF c.primary_key \/ c.fk # "" THEN Ids ELSE Vals) \cup {NULL, BadText}

Raws(cols) ==
    {f \in [{c.name : c \in cols} -> AllValues] : \A c \in cols : f[c.name] \in RawValues(c)}

\* action_insert prompts for every column that is not identity, action_update
\* for every column but the primary key.
InsertInputs ==
    [table \in TableMap |-> Raws({c \in ColSet(table) : ~is_identity(table, c)})]

UpdateInputs ==
    [table \in TableMap |-> Raws({c \in ColSet(table) : ~c.primary_key})]

GenCounts ==
    [clients : 0..MaxGen, couriers : 0..MaxGen, orders : 0..MaxGen,
     ordering : 0..MaxGen, dishes : 0..MaxGen]

ClientRows == [client_name : Vals, phone_number : Vals]
CourierRows == [courier_name : Vals, transport : Vals]
OrderRows == [total_amount : Vals, order_time : Vals]
OrderingRows == [client_id : Ids, courier_id : Ids, order_id : Ids]

\* ---------------------------------------------------------------- actions
SeqInBounds(s) == \A t \in TableMap : s[t] <= MaxId + 1

Idle == Result("idle", "", NULL, NoData, TRUE, "", FALSE, << >>, << >>, FALSE)

\* A call is made when the previous one has returned (result = Idle) and
\* leaves its answer in result.
Step(res, out) ==
    /\ SeqInBounds(out.seq)
    /\ db' = out.db
    /\ seq' = out.seq
    /\ result' = res
    /\ pre' = [db |-> db, seq |-> seq]
    /\ nops' = nops + 1
    /\ UNCHANGED inflight

Ready == result = Idle /\ nops < MaxOps /\ inflight = NoCall

ModelCall(op, table, pk, data, out) ==
    Step(Result(op, table, pk, data, out.ok, out.err, out.raised, << >>, << >>, out.issued), out)

Fetch(op, table, pk, raised, err, rows) ==
    Step(Result(op, table, pk, NoData, ~raised, err, raised, rows, << >>, FALSE),
         StoreOut(TRUE, "", FALSE, db, seq))

CtlCall(op, table, pk, raw, out) ==
    Step([Result(op, table, pk, out.data, out.ok, out.err, out.raised, << >>,
                 out.detail, out.issued) EXCEPT !.raw = raw], out)

\* A caller of the Model class.
CallPrimaryKey ==
    /\ Ready
    /\ \E table \in AnyTable, reflect_raises \in BOOLEAN :
        LET r == primary_key(table, reflect_raises)
        IN  Fetch("primary_key", table, NULL, r.raised, r.err, r.value)

CallColumnsInfo ==
    /\ Ready
    /\ \E table \in AnyTable, reflect_raises \in BOOLEAN :
        LET r == columns_info(table, reflect_raises)
        IN  Fetch("columns_info", table, NULL, r.raised, r.err, r.value)

CallSelectAll ==
    /\ Ready
    /\ \E table \in AnyTable :
        Fetch("select_all", table, NULL, FALSE, "", select_all(db, table))

CallSelectByPk ==
    /\ Ready
    /\ \E table \in AnyTable, pk_val \in Ids :
        Fetch("select_by_pk", table, pk_val, FALSE, "", select_by_pk(db, table, pk_val))

CallInsert ==
    /\ Ready
    /\ \E table \in AnyTable : \E data \in InsertPayloads[table] :
        ModelCall("insert", table, NULL, data, insert(db, seq, table, data))

CallUpdate ==
    /\ Ready
    /\ \E table \in AnyTable, pk_val \in Ids : \E updates \in UpdatePayloads[table] :
        ModelCall("update", table, pk_val, updates, update(db, seq, table, pk_val, updates))

CallDelete ==
    /\ Ready
    /\ \E table \in AnyTable, pk_val \in Ids :
        ModelCall("delete", table, pk_val, NoData, delete(db, seq, table, pk_val))

\* A user of the console.
ActionInsert ==
    /\ Ready
    /\ \E table \in TableMap : \E raw \in InsertInputs[table] :
        CtlCall("action_insert", table, NULL, raw, action_insert(db, seq, table, raw))

ActionUpdate ==
    /\ Ready
    /\ \E table \in TableMap, pk_val \in Ids : \E raw \in UpdateInputs[table] :
        CtlCall("action_update", table, pk_val, raw, action_update(db, seq, table, pk_val, raw))

ActionDelete ==
    /\ Ready
    /\ \E table \in TableMap, pk_val \in Ids :
        CtlCall("action_delete", table, pk_val, NoData, action_delete(db, seq, table, pk_val))

ActionGenerate ==
    /\ Ready
    /\ \E n \in GenCounts :
       \E rc \in [1..n.clients -> ClientRows] :
       \E g1 \in {then_rows(StoreOut(TRUE, "", FALSE, db, seq), n.clients, "client", rc)} :
       \E rk \in [1..n.couriers -> CourierRows] :
       \E g2 \in {then_rows(g1, n.couriers, "courier", rk)} :
       \E ro \in [1..n.orders -> OrderRows] :
       \E g3 \in {then_rows(g2, n.orders, "Order", ro)} :
       \E rg \in {x \in [1..n.ordering -> OrderingRows] : PicksValid(g3.db, x)} :
       \E g4 \in {then_ordering(g3, n.ordering, rg)} :
       \E chosen \in {c \in SUBSET Ids : ChosenValid(g4.db, n.dishes, c)}, price \in Vals :
       \E g5 \in {then_dishes(g4, n.dishes, chosen, price)} :
           Step(Result("action_generate", "", NULL, NoData, g5.ok, g5.err,
                     g5.raised, << >>, << >>, g5.issued), g5)

\* Controller.run: back at the menu, the last answer has been shown.
Return ==
    /\ result # Idle
    /\ result' = Idle
    /\ pre' = [db |-> db, seq |-> seq]
    /\ UNCHANGED <<db, seq, nops, inflight>>

Next ==
    \/ CallPrimaryKey
    \/ CallColumnsInfo
    \/ CallSelectAll
    \/ CallSelectByPk
    \/ CallInsert
    \/ CallUpdate
    \/ CallDelete
    \/ ActionInsert
    \/ ActionUpdate
    \/ ActionDelete
    \/ ActionGenerate
    \/ Return

Spec == Init /\ [][Next]_vars

\* ------------------------------------------- two clients of one store
\* Model.delete runs has_child_records in one session and the deletion in a
\* second one; Controller.action_update validates the references with
\* select_by_pk and writes with Model.update afterwards.  Between the two
\* halves another client of the same store may commit.

\* observed: another client has committed since the first half.
InFlight(op, table, pk, data) ==
    [op |-> op, table |-> table, pk |-> pk, data |-> data, observed |-> FALSE]

\* Model.delete up to the end of has_child_records.
DeleteBegin ==
    /\ Ready
    /\ \E table \in TableMap, pk_val \in Ids :
        IF has_child_records(db, table, pk_val)
        THEN ModelCall("delete", table, pk_val, NoData,
                       StoreOut(FALSE, "DependentRowsExist", FALSE, db, seq))
        ELSE /\ inflight' = InFlight("delete", table, pk_val, NoData)
             /\ nops' = nops + 1
             /\ pre' = [db |-> db, seq |-> seq]
             /\ UNCHANGED <<db, seq, result>>

\* Model.delete from the second session on.
DeleteFinish ==
    /\ inflight.op = "delete"
    /\ LET out == delete_row(db, seq, inflight.table, inflight.pk)
       IN  /\ db' = out.db
           /\ seq' = out.seq
           /\ result' = Result("delete", inflight.table, inflight.pk, NoData, out.ok,
                               out.err, out.raised, << >>, << >>, out.issued)
           /\ pre' = [db |-> db, seq |-> seq]
           /\ inflight' = NoCall
           /\ UNCHANGED nops

\* Controller.action_update up to the call of Model.update.
UpdateBegin ==
    /\ Ready
    /\ \E pk_val \in Ids : \E raw \in UpdateInputs["ordering"] :
        LET out == action_update(db, seq, "ordering", pk_val, raw)
        IN  IF ~out.issued
            THEN CtlCall("action_update", "ordering", pk_val, raw, out)
            ELSE /\ inflight' = InFlight("action_update", "ordering", pk_val, out.data)
                 /\ nops' = nops + 1
                 /\ pre' = [db |-> db, seq |-> seq]
                 /\ UNCHANGED <<db, seq, result>>

\* Controller.action_update from the call of Model.update on.
UpdateFinish ==
    /\ inflight.op = "action_update"
    /\ LET out == update(db, seq, inflight.table, inflight.pk, inflight.data)
       IN  /\ db' = out.db
           /\ seq' = out.seq
           /\ result' = Result("action_update", inflight.table, inflight.pk,
                               inflight.data, out.ok, out.err, out.raised, << >>,
                               << >>, out.issued)
           /\ pre' = [db |-> db, seq |-> seq]
           /\ inflight' = NoCall
           /\ UNCHANGED nops

\* Another client's committed insert, while a call is between its halves.
ObserverInsert ==
    /\ inflight # NoCall /\ ~inflight.observed
    /\ \E table \in TableMap : \E data \in InsertPayloads[table] :
        LET out == insert(db, seq, table, data)
        IN  /\ out.ok
            /\ SeqInBounds(out.seq)
            /\ db' = out.db
            /\ seq' = out.seq
            /\ inflight' = [inflight EXCEPT !.observed = TRUE]
            /\ UNCHANGED <<result, pre, nops>>

\* Another client's committed delete, while a call is between its halves.
ObserverDelete ==
    /\ inflight # NoCall /\ ~inflight.observed
    /\ \E table \in TableMap, pk_val \in Ids :
        LET out == delete(db, seq, table, pk_val)
        IN  /\ out.ok
            /\ db' = out.db
            /\ seq' = out.seq
            /\ inflight' = [inflight EXCEPT !.observed = TRUE]
            /\ UNCHANGED <<result, pre, nops>>

NextConc ==
    \/ ActionGenerate
    \/ DeleteBegin
    \/ DeleteFinish
    \/ UpdateBegin
    \/ UpdateFinish
    \/ ObserverInsert
    \/ ObserverDelete
    \/ Return

SpecConc == Init /\ [][NextConc]_vars

\* ------------------------------------------------- model.py: the searches
\* Texts are the values of Vals; a pattern is a text, the empty text, or a
\* text no row holds.  column ILIKE '%pattern%': false for a NULL column,
\* true for the empty pattern, else whether the text holds the pattern.
EmptyPattern == 0

Patterns == 0..(MaxVal + 1)

ilike(text, pattern) == text # NULL /\ (pattern = EmptyPattern \/ text = pattern)

\* func.sum(Order.total_amount) over the joined rows rs of ordering.
RECURSIVE sum_total_amount(_, _)
sum_total_amount(d, rs) ==
    IF rs = {} THEN 0
    ELSE LET r == CHOOSE x \in rs : TRUE
         IN  d["Order"][d["ordering"][r].order_id].total_amount
                 + sum_total_amount(d, rs \ {r})

\* client JOIN ordering JOIN Order: the ordering rows joined to client c.
client_join(d, c) ==
    {r \in DOMAIN d["ordering"] :
        /\ d["ordering"][r].client_id = c
        /\ d["ordering"][r].order_id \in DOMAIN d["Order"]}

\* courier LEFT OUTER JOIN ordering: the ordering rows joined to courier k
\* (none for a courier that no ordering row references).
courier_outerjoin(d, k) ==
    {r \in DOMAIN d["ordering"] : d["ordering"][r].courier_id = k}

\* .order_by(desc(label)): the groups in any order that is non-increasing in
\* the labelled column (rows that tie come in an order the store chooses).
order_by_desc(groups, label) ==
    {q \in [1..Cardinality(groups) -> groups] :
        \A i, j \in 1..Cardinality(groups) :
            i < j => (q[i] # q[j] /\ q[i].row[label] >= q[j].row[label])}

\* _timed_query: the selected columns of each result row, as a list.
timed_query(q) == [i \in DOMAIN q |-> q[i].row]

\* The groups of search_clients_orders_stats: one per client_id that passes
\* the filter and has a joined row.
clients_orders_groups(d, name_pattern) ==
    {[key |-> c,
      row |-> [client_name |-> d["client"][c].client_name,
               phone_number |-> d["client"][c].phone_number,
               orders_count |-> Cardinality(client_join(d, c)),
               total_spent |-> sum_total_amount(d, client_join(d, c))]] :
        c \in {x \in DOMAIN d["client"] :
                   /\ ilike(d["client"][x].client_name, name_pattern)
                   /\ client_join(d, x) # {}}}

\* The query without its order_by.
search_clients_orders_stats_unordered(d, name_pattern) ==
    LET groups == clients_orders_groups(d, name_pattern)
    IN  {timed_query(q) :
            q \in {x \in [1..Cardinality(groups) -> groups] :
                      \A i, j \in 1..Cardinality(groups) : i < j => x[i] # x[j]}}

\* Model.search_clients_orders_stats: the row lists the query may return.
search_clients_orders_stats(d, name_pattern) ==
    {timed_query(q) : q \in order_by_desc(clients_orders_groups(d, name_pattern), "total_spent")}

\* The groups of search_couriers_transport_stats: one per courier_id that
\* passes the filter; inner: with join in place of outerjoin.
couriers_transport_groups(d, transport_type, inner) ==
    {[key |-> k,
      row |-> [courier_name |-> d["courier"][k].courier_name,
               transport |-> d["courier"][k].transport,
               deliveries_count |-> Cardinality(courier_outerjoin(d, k))]] :
        k \in {x \in DOMAIN d["courier"] :
                   /\ ilike(d["courier"][x].transport, transport_type)
                   /\ inner => courier_outerjoin(d, x) # {}}}

\* The query with join in place of outerjoin.
search_couriers_transport_stats_inner_join(d, transport_type) ==
    {timed_query(q) :
        q \in order_by_desc(couriers_transport_groups(d, transport_type, TRUE),
                            "deliveries_count")}

\* Model.search_couriers_transport_stats: the row lists the query may return.
search_couriers_transport_stats(d, transport_type) ==
    {timed_query(q) :
        q \in order_by_desc(couriers_transport_groups(d, transport_type, FALSE),
                            "deliveries_count")}

\* The stores the searches are run on: any rows the declared constraints
\* admit, over the keys Ids, amounts up to MaxAmount.
ClientTables ==
    UNION {[K -> [client_id : Ids, client_name : Vals, phone_number : {NULL}]] :
               K \in SUBSET Ids}

CourierTables ==
    UNION {[K -> [courier_id : Ids, courier_name : {1}, transport : Vals \cup {NULL}]] :
               K \in SUBSET Ids}

OrderTables ==
    UNION {[K -> [order_id : Ids, total_amount : 1..MaxAmount, order_time : {1}]] :
               K \in SUBSET Ids}

OrderingTables(c, k, o) ==
    UNION {[K -> [ordering_id : Ids, client_id : DOMAIN c, courier_id : DOMAIN k,
                  order_id : DOMAIN o]] : K \in SUBSET Ids}

KeyedByPk(table, rows) == \A x \in DOMAIN rows : rows[x][PkAttr(table)] = x

InitSearch ==
    /\ \E c \in {x \in ClientTables : KeyedByPk("client", x)},
          k \in {x \in CourierTables : KeyedByPk("courier", x)},
          o \in {x \in OrderTables : KeyedByPk("Order", x)} :
         \E g \in {x \in OrderingTables(c, k, o) : KeyedByPk("ordering", x)} :
             db = [client |-> c, courier |-> k, Order |-> o, Dish |-> << >>,
                   ordering |-> g]
    /\ seq = [t \in TableMap |-> 1]
    /\ result = Idle
    /\ pre = [db |-> db, seq |-> seq]
    /\ nops = 0
    /\ inflight = NoCall

\* Controller.action_search: one query run and its rows shown.
Search(op, pattern, rows) ==
    /\ result' = Result(op, "", NULL, [pattern |-> pattern], TRUE, "", FALSE, rows,
                        << >>, FALSE)
    /\ pre' = [db |-> db, seq |-> seq]
    /\ UNCHANGED <<db, seq, nops, inflight>>

SearchClientsOrdersStats ==
    /\ result = Idle
    /\ \E name_pattern \in Patterns :
       \E rows \in search_clients_orders_stats(db, name_pattern) :
           Search("search_clients_orders_stats", name_pattern, rows)

SearchCouriersTransportStats ==
    /\ result = Idle
    /\ \E transport_type \in Patterns :
       \E rows \in search_couriers_transport_stats(db, transport_type) :
           Search("search_couriers_transport_stats", transport_type, rows)

NextSearch ==
    \/ SearchClientsOrdersStats
    \/ SearchCouriersTransportStats
    \/ Return

SpecSearch == InitSearch /\ [][NextSearch]_vars

\* ================================================================ claims
Deletes == {"delete", "action_delete"}
Updates == {"update", "action_update"}
Inserts == {"insert", "action_insert"}

\* The last call was made on a registered table.
OnTable == result.table \in TableMap

\* The row the last call named existed when the call began.
RowExisted == OnTable /\ result.pk \in DOMAIN pre.db[result.table]

\* The user typed nothing that fails to parse as an integer.
Castable ==
    \A c \in ColSet(result.table) :
        (c.name \in DOMAIN result.raw /\ c.type = "integer") => result.raw[c.name] # BadText

\* The identity columns as the specification lists them.
IdentityColumns == {"client_id", "courier_id", "order_id", "ordering_id"}

IdentityOf(table) ==
    {c \in ColSet(table) : c.primary_key /\ c.name \in IdentityColumns}

\* C1: a delete of a parent row that has a dependent row (an ordering row
\* referencing a client, courier or Order, or the Dish of an Order) fails
\* with DependentRowsExist and leaves the parent and every dependent row in
\* the store.
C1_DeleteBlocked ==
    (result.op \in Deletes /\ RowExisted /\ Referenced(pre.db, result.table, result.pk))
        => (~result.ok /\ result.err = "DependentRowsExist" /\ db = pre.db)

C1_Witness ==
    /\ result.op = "delete" /\ result.table = "Order"
    /\ result.err = "DependentRowsExist"
    /\ result.pk \in DOMAIN db["Order"]
    /\ result.pk \in DOMAIN db["Dish"]
    /\ \A r \in DOMAIN db["ordering"] : db["ordering"][r].order_id # result.pk

\* The parent columns of an update payload whose value has no parent row.
DanglingIn(d, data) ==
    {i \in DOMAIN ParentColumns :
        /\ ParentColumns[i].col \in DOMAIN data
        /\ data[ParentColumns[i].col] \notin {NULL, BadText}
        /\ data[ParentColumns[i].col] \notin DOMAIN d[ParentColumns[i].table]}

C3_ReferentialIntegrity ==
    /\ \A r \in DOMAIN db["ordering"] :
           /\ db["ordering"][r].client_id \in DOMAIN db["client"]
           /\ db["ordering"][r].courier_id \in DOMAIN db["courier"]
           /\ db["ordering"][r].order_id \in DOMAIN db["Order"]
    /\ \A k \in DOMAIN db["Dish"] :
           db["Dish"][k].dish_id = k /\ k \in DOMAIN db["Order"]

C3_Witness ==
    /\ nops = MaxOps
    /\ result.op \in Updates \cup Deletes /\ result.ok /\ db # pre.db
    /\ DOMAIN db["ordering"] # {}
    /\ DOMAIN db["Dish"] # {}

\* C4: the child check and the deletion are one step for any other client of
\* the store: a delete that succeeds removes a parent that has no dependent
\* row at the moment of deletion, and removes no row of another table; an
\* ordering update that succeeds leaves the row referencing existing parents.
C4_CheckAndWriteAtomic ==
    /\ (result.op = "delete" /\ result.ok) =>
           /\ ~Referenced(pre.db, result.table, result.pk)
           /\ \A u \in TableMap \ {result.table} : db[u] = pre.db[u]
    /\ (result.op = "action_update" /\ result.ok) => C3_ReferentialIntegrity

\* The keys of the payload that are attributes of the table's rows.
Accepted == DOMAIN result.data \cap AttrSet(result.table)

\* C5: an insert, update or delete that fails leaves every table as it was;
\* one that succeeds has its whole effect in the store: the inserted row with
\* the payload's values, the updated row with every payload value written and
\* the other fields kept, the deleted row gone.
C5_AllOrNothing ==
    /\ (result.op \in Inserts \cup Updates \cup Deletes /\ ~result.ok) => db = pre.db
    /\ (result.op \in Inserts /\ result.ok) =>
           LET t == result.table
               new == DOMAIN db[t] \ DOMAIN pre.db[t]
           IN  /\ Cardinality(new) = 1
               /\ \A k \in new : \A a \in AttrSet(t) \ {PkAttr(t)} :
                      db[t][k][a] = IF a \in DOMAIN result.data THEN result.data[a] ELSE NULL
               /\ \A u \in TableMap : \A k \in DOMAIN pre.db[u] :
                      k \in DOMAIN db[u] /\ db[u][k] = pre.db[u][k]
    /\ (result.op \in Updates /\ result.ok) =>
           LET t == result.table
               pk == PkAttr(t)
               k2 == IF pk \in Accepted THEN result.data[pk] ELSE result.pk
           IN  IF ~RowExisted \/ Accepted = {} THEN db = pre.db
               ELSE /\ k2 \in DOMAIN db[t]
                    /\ \A a \in AttrSet(t) :
                           db[t][k2][a] = IF a \in Accepted THEN result.data[a]
                                          ELSE pre.db[t][result.pk][a]
                    /\ \A u \in TableMap : \A k \in DOMAIN pre.db[u] :
                           (u # t \/ k # result.pk) =>
                               (k \in DOMAIN db[u] /\ db[u][k] = pre.db[u][k])
    /\ (result.op \in Deletes /\ result.ok) =>
           (RowExisted /\ result.pk \notin DOMAIN db[result.table])

C5_Witness ==
    /\ result.op = "insert" /\ result.table = "ordering"
    /\ ~result.ok /\ result.issued /\ result.err = "SQLAlchemyError"
    /\ DOMAIN db["ordering"] # {}
    /\ db = pre.db

\* C6: an update of a registered table whose row does not exist fails with
\* NotFound, whatever the mapping of field updates is.
C6_UpdateAbsentNotFound ==
    (result.op \in Updates /\ OnTable /\ ~RowExisted)
        => (~result.ok /\ result.err = "NotFound")

\* C7: every operation called with a table identifier that is not registered
\* fails with UnknownTable and leaves the store alone.
C7_UnknownTable ==
    (result.op # "idle" /\ result.table = NoTable)
        => (~result.ok /\ result.err \in {"UnknownTable", "NoSuchTableError"} /\ db = pre.db)

C9_IdentityAssignedByStore ==
    /\ \A t \in TableMap : \A c \in ColSet(t) :
           is_identity(t, c) <=> c \in IdentityOf(t)
    /\ (result.op \in Inserts /\ result.ok /\ OnTable /\ IdentityOf(result.table) # {})
         => DOMAIN db[result.table] \ DOMAIN pre.db[result.table]
                = {pre.seq[result.table]}
    /\ (result.op \in Inserts /\ result.ok /\ result.table = "Dish")
         => /\ "dish_id" \in DOMAIN result.data
            /\ DOMAIN db["Dish"] \ DOMAIN pre.db["Dish"] = {result.data["dish_id"]}
            /\ result.data["dish_id"] \in DOMAIN db["Order"]

\* C10: no update changes the primary key of a row: every table holds the
\* same keys after an update as before it.
C10_PrimaryKeyImmutable ==
    (result.op \in Updates /\ OnTable)
        => \A t \in TableMap : DOMAIN db[t] = DOMAIN pre.db[t]

\* C11: a delete of an existing row that no row references succeeds, and
\* from then on select_by_pk of that table and key finds nothing (as long as
\* the store holds no row with that key); a delete of a key that has no row
\* fails with NotFound and changes nothing.
C11_DeleteThenNotFound ==
    /\ (result.op \in Deletes /\ RowExisted /\ ~Referenced(pre.db, result.table, result.pk))
         => /\ result.ok
            /\ select_by_pk(db, result.table, result.pk) = << >>
    /\ (result.op \in Deletes /\ OnTable /\ ~RowExisted)
         => (~result.ok /\ result.err = "NotFound" /\ db = pre.db)
    /\ (result.op = "select_by_pk" /\ OnTable /\ result.pk \notin DOMAIN db[result.table])
         => result.rows = << >>

C11_Witness ==
    /\ result.op = "delete" /\ result.table = "client" /\ result.ok
    /\ result.pk \in DOMAIN pre.db["client"]
    /\ \A r \in DOMAIN pre.db["ordering"] : pre.db["ordering"][r].client_id # result.pk
    /\ select_by_pk(db, "client", result.pk) = << >>

\* The names columns_info reports for the columns a caller has to supply.
SuppliedColumns(table) ==
    {c.name : c \in {x \in ColSet(table) : ~is_identity(table, x)}}

\* The payload gives every column a value its declaration admits in store d.
Admissible(d, table, data) ==
    \A c \in ColSet(table) : c.name \in DOMAIN data =>
        /\ data[c.name] = BadText => IsTextType(c.type)
        /\ data[c.name] = NULL => c.nullable
        /\ c.fk # "" => data[c.name] \in DOMAIN d[c.fk]
        /\ c.primary_key => data[c.name] \notin DOMAIN d[table]

\* C12: an insert whose payload is keyed by the column names columns_info
\* reports, with admissible values, is accepted, and select_by_pk of the new
\* row's key returns a mapping that carries every payload column under the
\* same name with the same value; this for every registered table (the
\* store's generator being at a free key where the table has an identity).
C12_InsertFetchRoundTrip ==
    (/\ result.op \in Inserts /\ OnTable
     /\ DOMAIN result.data = SuppliedColumns(result.table)
     /\ Admissible(pre.db, result.table, result.data)
     /\ IdentityOf(result.table) # {} => pre.seq[result.table] \notin DOMAIN pre.db[result.table])
        => /\ result.ok
           /\ \E k \in DOMAIN db[result.table] \ DOMAIN pre.db[result.table] :
                  LET got == select_by_pk(db, result.table, k)
                  IN  /\ got # << >>
                      /\ \A n \in DOMAIN result.data :
                             n \in DOMAIN got[1] /\ got[1][n] = result.data[n]

IsTemporalType(dtype) == dtype \in {"timestamp", "date"}

\* C13: no payload the console builds for an insert or update carries, in a
\* column of a temporal type, a text that is not a valid date or timestamp:
\* the cast of such a text fails instead of returning it.
C13_TemporalValidated ==
    (result.op \in {"action_insert", "action_update"} /\ OnTable)
        => \A c \in ColSet(result.table) :
               (/\ IsTemporalType(c.type)
                /\ c.name \in DOMAIN result.data
                /\ result.data[c.name] # NULL)
                   => parse_date(result.data[c.name]) # NULL

\* The ordering rows of client c, of courier k.
OrderingsOfClient(c) == {r \in DOMAIN db["ordering"] : db["ordering"][r].client_id = c}

OrderingsOfCourier(k) == {r \in DOMAIN db["ordering"] : db["ordering"][r].courier_id = k}

RECURSIVE Spent(_)
Spent(rs) ==
    IF rs = {} THEN 0
    ELSE LET r == CHOOSE x \in rs : TRUE
         IN  db["Order"][db["ordering"][r].order_id].total_amount + Spent(rs \ {r})

\* The row the statistics owe client c, courier k.
ClientStat(c) ==
    [client_name |-> db["client"][c].client_name,
     phone_number |-> db["client"][c].phone_number,
     orders_count |-> Cardinality(OrderingsOfClient(c)),
     total_spent |-> Spent(OrderingsOfClient(c))]

CourierStat(k) ==
    [courier_name |-> db["courier"][k].courier_name,
     transport |-> db["courier"][k].transport,
     deliveries_count |-> Cardinality(OrderingsOfCourier(k))]

Times(rows, row) == Cardinality({i \in DOMAIN rows : rows[i] = row})

\* C14: search_clients_orders_stats with the empty pattern returns one row
\* per client that has an ordering row and none for the other clients, each
\* with orders_count the number of the client's ordering rows and total_spent
\* the sum of their Orders' total_amount, in non-increasing total_spent.
C14_ClientOrderStats ==
    (result.op = "search_clients_orders_stats" /\ result.data.pattern = EmptyPattern)
        => LET buyers == {c \in DOMAIN db["client"] : OrderingsOfClient(c) # {}}
               rows == result.rows
           IN  /\ Len(rows) = Cardinality(buyers)
               /\ \A c \in buyers :
                      Times(rows, ClientStat(c))
                          = Cardinality({x \in buyers : ClientStat(x) = ClientStat(c)})
               /\ \A i, j \in DOMAIN rows :
                      i < j => rows[i].total_spent >= rows[j].total_spent

C14_Witness ==
    /\ result.op = "search_clients_orders_stats"
    /\ result.data.pattern = EmptyPattern
    /\ Len(result.rows) = 2
    /\ result.rows[1].total_spent > result.rows[2].total_spent
    /\ result.rows[1].orders_count = 1

\* C15: search_couriers_transport_stats returns one row per courier whose
\* transport matches the pattern, a courier without ordering rows included
\* with deliveries_count 0, each with deliveries_count the number of ordering
\* rows of the courier, in non-increasing deliveries_count.
C15_CourierTransportStats ==
    result.op = "search_couriers_transport_stats"
        => LET matching == {k \in DOMAIN db["courier"] :
                               ilike(db["courier"][k].transport, result.data.pattern)}
               rows == result.rows
           IN  /\ Len(rows) = Cardinality(matching)
               /\ \A k \in matching :
                      Times(rows, CourierStat(k))
                          = Cardinality({x \in matching : CourierStat(x) = CourierStat(k)})
               /\ \A i, j \in DOMAIN rows :
                      i < j => rows[i].deliveries_count >= rows[j].deliveries_count

C15_Witness ==
    /\ result.op = "search_couriers_transport_stats"
    /\ result.data.pattern \in Vals
    /\ Cardinality(DOMAIN db["courier"]) = 2
    /\ Len(result.rows) = 2
    /\ result.rows[1].deliveries_count = 2
    /\ result.rows[2].deliveries_count = 0

\* C16: a delete that reports success has removed the row of the named table
\* with the given key and nothing else: every other row of the table and
\* every row of every other table is as it was, so no ordering or Dish row
\* goes with a client, courier or Order through the relationships' cascade.
C16_DeleteRemovesOneRow ==
    (result.op \in Deletes /\ result.ok)
        => /\ RowExisted
           /\ \A t \in TableMap :
                  db[t] = IF t = result.table THEN Drop(pre.db[t], {result.pk})
                          ELSE pre.db[t]

C16_Witness ==
    /\ result.op \in Deletes /\ result.ok
    /\ result.table \in {"client", "courier"}
    /\ result.pk \notin DOMAIN db[result.table]
    /\ DOMAIN db["Dish"] # {}
    /\ DOMAIN db["Order"] # {}

====
